---- MODULE Spec2Model ----
(***************************************************************************)
(* A model of the playback loop of src/video_player.cpp: the main loop of  *)
(* run() (seek block, decode loop, cadence gate, seek slider), the audio   *)
(* byte buffer it shares with audio_callback(), and audio_callback()       *)
(* itself, which SDL runs on its own thread with no lock between the two.  *)
(* main() around run() is modelled as far as the exit code goes.           *)
(*                                                                         *)
(* Time is counted in ticks of 1/AV_TIME_BASE second.  Every access to a   *)
(* variable shared by the two threads (audio_buf, audio_buf_size,          *)
(* audio_buf_index) is a step of its own; where the compiler may either    *)
(* reuse a value it loaded earlier or load it again, the model chooses     *)
(* nondeterministically between the two.                                   *)
(***************************************************************************)
EXTENDS Integers, Sequences, FiniteSets, TLC

VARIABLES
    \* ---- session configuration (fixed by open_file / SDL_OpenAudioDevice)
    packets,          \* the container: the packets av_read_frame returns, in order
    duration,         \* fmt->duration, in ticks
    adec,             \* TRUE iff an audio decoder was opened
    audio_dev,        \* TRUE iff SDL_OpenAudioDevice gave a device (callback runs)
    seekable,         \* TRUE iff av_seek_frame succeeds on this container
    vdelay,           \* frames the video decoder holds back before it outputs
    boot,             \* what main() meets before run(): "ok" or the step that fails
    open_res,         \* what open_file() meets: "ok" or the step that fails
    \* ---- main thread
    pc,               \* position of the main thread in run()
    now,              \* last value read from glfwGetTime()
    start,            \* the clock anchor
    video_time,       \* now - start, computed at the top of the iteration
    last_video,       \* video_time of the last presented frame
    seeking,          \* the armed seek flag
    seek_target,      \* the pending seek target, in ticks
    got_video,
    pts,              \* timestamp of the last decoded video frame, in ticks
    cursor,           \* number of packets the source reader has handed out
    vdec_q,           \* frames held inside the video decoder (their pts)
    adec_q,           \* frames held inside the audio decoder (their bytes)
    aframe,           \* the audio frame being pushed (its bytes)
    m_idx,            \* the main thread's last loaded value of audio_buf_index
    rdone,            \* which stores of line 307 have been performed
    \* ---- the shared audio buffer
    audio_buf,        \* the allocation: a sequence of bytes
    audio_buf_size,
    audio_buf_index,
    \* ---- audio callback thread
    cpc,              \* position of the callback thread in audio_callback()
    len,              \* the callback's len argument
    c_idx, c_size,    \* the callback's last loaded audio_buf_index / audio_buf_size
    copy,
    stream,           \* the callback's output buffer, as filled so far
    \* ---- the process
    exit_code,        \* value main() returned, -1 while the process runs
    \* ---- history (observations of the run; never read by the program)
    hist,             \* of the main loop
    cbh,              \* of the running / last callback invocation
    ringh             \* of the audio buffer since the last reset

cfgVars  == <<packets, duration, adec, audio_dev, seekable, vdelay, boot,
              open_res>>
mainVars == <<pc, now, start, video_time, last_video, seeking, seek_target,
              got_video, pts, cursor, vdec_q, adec_q, aframe, m_idx, rdone>>
ringVars == <<audio_buf, audio_buf_size, audio_buf_index>>
cbVars   == <<cpc, len, c_idx, c_size, copy, stream>>
procVars == <<exit_code>>
histVars == <<hist, cbh, ringh>>
vars     == <<cfgVars, mainVars, ringVars, cbVars, procVars, histVars>>

(***************************************************************************)
(* Bounds of the exploration.                                              *)
(***************************************************************************)
AV_TIME_BASE == 60   \* ticks per second (the library's value is 1000000)
MaxNow       == 6    \* the wall clock is explored up to this reading
MaxStep      == 2    \* largest advance of the clock between two readings
MaxSeeks     == 2    \* seek requests the UI emits in one run
MaxLen       == 3    \* largest len the audio subsystem asks for
MaxCalls     == 1    \* invocations of the audio callback in one run

Lens            == {1, MaxLen}   \* SDL asks for a whole, non-empty buffer
SliderPositions == {0, 50}          \* percent values the slider reports
Indeterminate   == {0, 255}         \* values an unwritten byte may hold

Min(a, b) == IF a < b THEN a ELSE b
Zeros(n)  == [k \in 1..n |-> 0]

\* A compressed packet: its stream, its timestamp, whether it is a sync point,
\* and the frames its decoder makes of it (timestamps for video, bytes for
\* audio).
VPkt(p, k) == [st |-> "v", pts |-> p, key |-> k, frames |-> <<p>>]
VPktN(ps, k) == [st |-> "v", pts |-> ps[1], key |-> k, frames |-> ps]
APkt(fs)   == [st |-> "a", pts |-> 0, key |-> FALSE, frames |-> fs]

\* A container with one audio and one video stream, 4 ticks long.
AudioStream == << APkt(<< <<1, 2>> >>), VPkt(0, TRUE),
                  APkt(<< <<3, 4>> >>), VPkt(2, TRUE) >>
\* A container with a video stream only, 12 ticks long, 20 frames a second.
VideoStream == << VPkt(0, TRUE), VPkt(3, FALSE), VPkt(6, FALSE), VPkt(9, TRUE) >>
\* The same four frames, the first packet unlocking two of them.
BurstStream == << VPktN(<<0, 3>>, TRUE), VPkt(6, FALSE), VPkt(9, TRUE) >>

(***************************************************************************)
(* Pure pieces of the code.                                                *)
(***************************************************************************)

\* line 354: seek_target = (int64_t)(pos / 100.0 * duration * AV_TIME_BASE)
SeekTarget(pos, dur) == (pos * dur) \div 100

\* line 302: the timestamp handed to av_seek_frame, which reads it in
\* AV_TIME_BASE units (stream_index -1), that is in ticks.
SeekTimestamp(target) == target * AV_TIME_BASE

\* (mutation of line 306: the flag is left set)
FlagLeftSet == TRUE

\* line 306: seeking = false
ClearedFlag == FALSE

\* (mutation of line 305: the target is not subtracted)
RebasedStartUnshifted(n, target) == n

\* line 305: start = now - (seek_target / 1000000.0)
RebasedStart(n, target) == n - target

\* line 339: video_time - last_video >= 1.0 / 30.0
CadenceElapsed(vt, lv) == 30 * (vt - lv) >= AV_TIME_BASE

\* av_seek_frame(.., AVSEEK_FLAG_BACKWARD): the read cursor is put in front of
\* the last video sync point at or before ts (the first one when there is none).
SyncPoints(pk) == {i \in 1..Len(pk) : pk[i].st = "v" /\ pk[i].key}
SeekCursor(pk, ts) ==
    LET before == {i \in SyncPoints(pk) : pk[i].pts <= ts}
        pick   == IF before # {}
                  THEN CHOOSE i \in before : \A j \in before : j <= i
                  ELSE CHOOSE i \in SyncPoints(pk) : \A j \in SyncPoints(pk) : i <= j
    IN pick - 1

\* line 313: av_read_frame(fmt, &pkt) < 0 once every packet has been handed out
EndOfStreamNever(c, pk) == FALSE
EndOfStream(c, pk) == c >= Len(pk)

\* lines 315, 322: avcodec_send_packet takes the packet unless the stage still
\* holds output that was not received (it then answers EAGAIN); q is what the
\* stage holds, d the number of frames it keeps back before it outputs.
SendAccepted(q, d) == Len(q) <= d
AfterSend(q, d, fr) == IF SendAccepted(q, d) THEN q \o fr ELSE q

\* lines 316, 323: avcodec_receive_frame returns 0 (a frame)
ReceiveReady(q, d) == Len(q) > d

\* lines 303-304: avcodec_flush_buffers drops whatever the stage holds
FlushSkipped(q) == q
FlushBuffers(q) == <<>>

\* line 354: the assignment replaces whatever target was stored
KeepFirst(old, new) == old
Overwrite(old, new) == new

\* line 326: (uint32_t)(audio_buf_size - audio_buf_index) < (uint32_t)bytes.
\* Both cursors and bytes are below 2^31 here, so when sz < idx the unsigned
\* difference wraps to at least 2^31 and the test is false.
NeedsGrow(sz, idx, bytes) == sz >= idx /\ sz - idx < bytes

\* line 210: audio_buf_index >= audio_buf_size
Underrun(idx, sz) == idx >= sz

\* (mutation of line 215: the clamp to len is missing)
CopyCountUnclamped(sz, idx, n) == sz - idx

\* lines 214-215: int copy = size - index; if (copy > len) copy = len;
\* the unsigned difference converted to int is sz - idx, negative when sz < idx.
CopyCount(sz, idx, n) == IF sz - idx > n THEN n ELSE sz - idx

\* av_realloc(audio_buf, n): the first min(old, n) bytes are kept, the rest of
\* the new block holds whatever g stands for.
Realloc(buf, n, g) == [k \in 1..n |-> IF k <= Len(buf) THEN buf[k] ELSE g]

\* lines 330-332: the bytes of the frame stored at audio_buf + at; a store
\* past the end of the allocation does not land in it.
StoreAt(buf, at, bytes) ==
    [k \in 1..Len(buf) |->
        IF k > at /\ k <= at + Len(bytes) THEN bytes[k - at] ELSE buf[k]]

\* line 216: copy bytes read from audio_buf + at; a byte past the end of the
\* allocation reads as g.
LoadAt(buf, at, n, g) ==
    [k \in 1..n |-> IF at + k <= Len(buf) THEN buf[at + k] ELSE g]

(***************************************************************************)
(* The state after open_file() and the audio set-up of run(), lines         *)
(* 272-294, at the first test of the loop condition.                        *)
(***************************************************************************)
Hist0 ==
    [tests |-> 0, pulls |-> 0, armed |-> FALSE,
     requests |-> 0, repos |-> 0, age |-> 0,
     seek_ts |-> -1, repo_target |-> -1, awaiting |-> FALSE,
     pres_now |-> -1, pres_pts |-> -1,
     shown |-> FALSE, first |-> FALSE, gap |-> -1, prev |-> 0, elapsed |-> 0,
     eof |-> FALSE, entered |-> FALSE, cleanups |-> 0, presented |-> <<>>,
     vdrained |-> TRUE, adrained |-> TRUE, lost |-> FALSE,
     last_req |-> 0, qe |-> <<>>, f_epoch |-> 0, a_epoch |-> 0,
     discarded |-> 0, used |-> -1, used_before |-> -1, repo_now |-> -1]
CbH0 ==
    [e_idx |-> 0, e_size |-> 0, e_buf |-> <<>>, e_quiet |-> TRUE,
     e_pushed |-> <<>>, e_pulled |-> 0, e_racy |-> FALSE,
     clean |-> TRUE, ret |-> FALSE, r_idx |-> 0, r_size |-> 0]
RingH0 ==
    [pushed |-> <<>>, pulled |-> 0, racy |-> FALSE, overflow |-> FALSE,
     calls |-> 0]

InitCommon ==
    /\ video_time = 0 /\ last_video = 0
    /\ seeking = FALSE /\ seek_target = 0
    /\ got_video = 0 /\ pts = 0
    /\ cursor = 0 /\ vdec_q = <<>> /\ adec_q = <<>> /\ aframe = <<>>
    /\ m_idx = 0 /\ rdone = {}
    /\ audio_buf = <<>> /\ audio_buf_size = 0 /\ audio_buf_index = 0
    /\ cpc = "idle" /\ len = 0 /\ c_idx = 0 /\ c_size = 0 /\ copy = 0
    /\ stream = <<>>
    /\ exit_code = -1
    /\ hist = Hist0 /\ cbh = CbH0 /\ ringh = RingH0

\* A file with an audio stream, the audio device open.  The session starts
\* with the clock at the end of the explored range, so every iteration of
\* the loop reads the same tick.
Init ==
    /\ packets = AudioStream /\ duration = 4
    /\ adec = TRUE /\ audio_dev = TRUE
    /\ seekable = TRUE /\ vdelay = 0
    /\ boot = "ok" /\ open_res = "ok"
    /\ now = MaxNow /\ start = MaxNow
    /\ pc = "loop"
    /\ InitCommon

\* A file with no audio stream (aidx < 0): no decoder, no device, no callback.
InitClock ==
    /\ packets = VideoStream /\ duration = 12
    /\ adec = FALSE /\ audio_dev = FALSE
    /\ seekable \in BOOLEAN /\ vdelay \in {0, 1}
    /\ boot = "ok" /\ open_res = "ok"
    /\ now = 0 /\ start = 0
    /\ pc = "loop"
    /\ InitCommon

\* A file without audio whose first packet unlocks two frames.
InitBurst ==
    /\ packets = BurstStream /\ duration = 12
    /\ adec = FALSE /\ audio_dev = FALSE
    /\ seekable = TRUE /\ vdelay \in {0, 1}
    /\ boot = "ok" /\ open_res = "ok"
    /\ now = 0 /\ start = 0
    /\ pc = "loop"
    /\ InitCommon

\* What main() can meet before run() (lines 385-401) and open_file() inside
\* it (lines 227-246).
Boots       == {"ok", "argc", "sdl", "glfw", "window"}
OpenResults == {"ok", "container", "streaminfo", "novideo", "codec"}

\* The process at the entry of main(), any start-up or open outcome ahead.
InitMain ==
    /\ packets = VideoStream /\ duration = 12
    /\ adec = FALSE /\ audio_dev = FALSE
    /\ seekable = TRUE /\ vdelay = 0
    /\ boot \in Boots /\ open_res \in OpenResults
    /\ now = 0 /\ start = 0
    /\ pc = "main"
    /\ InitCommon

\* The process at the entry of main() with a file that opens.
InitLive ==
    /\ packets \in {VideoStream, BurstStream} /\ duration = 12
    /\ adec = FALSE /\ audio_dev = FALSE
    /\ seekable = TRUE /\ vdelay \in {0, 1}
    /\ boot = "ok" /\ open_res = "ok"
    /\ now = 0 /\ start = 0
    /\ pc = "main"
    /\ InitCommon

(***************************************************************************)
(* main() around run(), lines 383-427, and the entry of run(), line 272.    *)
(***************************************************************************)
MainRest == <<now, start, video_time, last_video, seeking, seek_target,
              got_video, pts, cursor, vdec_q, adec_q, aframe, m_idx, rdone>>

\* lines 385-401: wrong argument count, SDL_Init, glfwInit or
\* glfwCreateWindow fails: return 1
MainFail ==
    /\ pc = "main" /\ boot # "ok"
    /\ exit_code' = 1
    /\ pc' = "exited"
    /\ UNCHANGED <<cfgVars, MainRest, ringVars, cbVars, histVars>>

\* lines 385-412: start-up succeeds and run() is called
MainBoot ==
    /\ pc = "main" /\ boot = "ok"
    /\ pc' = "open"
    /\ UNCHANGED <<cfgVars, procVars, MainRest, ringVars, cbVars, histVars>>

\* line 272: open_file() < 0: a message on stderr and run() returns
OpenFail ==
    /\ pc = "open" /\ open_res # "ok"
    /\ pc' = "done"
    /\ UNCHANGED <<cfgVars, procVars, MainRest, ringVars, cbVars, histVars>>

\* lines 272-294: the file opens; the loop is entered
OpenOk ==
    /\ pc = "open" /\ open_res = "ok"
    /\ pc' = "loop"
    /\ hist' = [hist EXCEPT !.entered = TRUE]
    /\ UNCHANGED <<cfgVars, procVars, MainRest, ringVars, cbVars, cbh, ringh>>

\* lines 414-426: run() has returned; main() tears down and returns 0
MainExit ==
    /\ pc = "done"
    /\ exit_code' = 0
    /\ pc' = "exited"
    /\ UNCHANGED <<cfgVars, MainRest, ringVars, cbVars, histVars>>

(***************************************************************************)
(* The main thread: run(), lines 296-378.                                   *)
(***************************************************************************)
Alive   == cpc # "crashed"     \* the process has not died in the callback
RingPcs == {"pgrow", "pcopy", "padv", "reset"}

\* What a store of the main thread into the shared buffer does to the
\* observations: a callback invocation in progress is no longer undisturbed,
\* and what it saw on entry is no longer compared with what it returns.
Disturbed(c) == IF cpc # "idle" THEN [CbH0 EXCEPT !.clean = FALSE] ELSE c
Raced(r)     == IF cpc # "idle" THEN [r EXCEPT !.racy = TRUE] ELSE r

\* line 296: glfwWindowShouldClose(win) is true
WindowClose ==
    /\ Alive /\ pc = "loop"
    /\ pc' = "end"
    /\ UNCHANGED <<cfgVars, procVars, now, start, video_time, last_video, seeking,
                   seek_target, got_video, pts, cursor, vdec_q, adec_q, aframe,
                   m_idx, rdone, ringVars, cbVars, histVars>>

\* lines 296-298: the loop goes round; now and video_time are read
LoopTop ==
    /\ Alive /\ pc = "loop"
    /\ \E t \in now..Min(now + MaxStep, MaxNow) : now' = t
    /\ video_time' = now' - start
    /\ pc' = "seek"
    /\ hist' = [hist EXCEPT !.tests = 0, !.pulls = 0, !.armed = FALSE,
                            !.age = IF seeking THEN hist.age + 1 ELSE hist.age]
    /\ UNCHANGED <<cfgVars, procVars, start, last_video, seeking, seek_target, got_video,
                   pts, cursor, vdec_q, adec_q, aframe, m_idx, rdone, ringVars,
                   cbVars, cbh, ringh>>

\* line 301 with seeking false, then line 311
SeekSkip ==
    /\ Alive /\ pc = "seek" /\ ~seeking
    /\ got_video' = 0
    /\ pc' = "read"
    /\ hist' = [hist EXCEPT !.tests = hist.tests + 1, !.armed = FALSE]
    /\ UNCHANGED <<cfgVars, procVars, now, start, video_time, last_video, seeking,
                   seek_target, pts, cursor, vdec_q, adec_q, aframe, m_idx,
                   rdone, ringVars, cbVars, cbh, ringh>>

\* lines 301-306: source seek, both flushes, clock rebase, flag cleared
Reposition ==
    /\ Alive /\ pc = "seek" /\ seeking
    /\ cursor' = IF seekable THEN SeekCursor(packets, SeekTimestamp(seek_target))
                             ELSE cursor
    /\ vdec_q' = FlushBuffers(vdec_q)
    /\ adec_q' = IF adec THEN FlushBuffers(adec_q) ELSE adec_q
    /\ start' = RebasedStart(now, seek_target)
    /\ seeking' = ClearedFlag
    /\ rdone' = {}
    /\ pc' = "reset"
    /\ hist' = [hist EXCEPT !.tests = hist.tests + 1, !.armed = TRUE,
                            !.repos = hist.repos + 1, !.age = 0,
                            !.seek_ts = SeekTimestamp(seek_target),
                            !.repo_target = seek_target,
                            !.awaiting = TRUE,
                            !.vdrained = TRUE, !.adrained = TRUE,
                            !.used = seek_target, !.used_before = hist.used,
                            !.repo_now = now,
                            !.qe = SubSeq(hist.qe, 1, Len(vdec_q')),
                            !.discarded = Len(vdec_q) - Len(vdec_q')]
    /\ UNCHANGED <<cfgVars, procVars, now, video_time, last_video, seek_target, got_video,
                   pts, aframe, m_idx, ringVars, cbVars, cbh, ringh>>

\* After the second store of line 307 the seek block is over: line 311.
ResetStep(which) ==
    /\ rdone' = rdone \cup {which}
    /\ IF rdone' = {"size", "index"}
       THEN /\ pc' = "read" /\ got_video' = 0
            /\ ringh' = [ringh EXCEPT !.pushed = <<>>, !.pulled = 0,
                                      !.racy = (cpc # "idle")]
       ELSE /\ pc' = "reset" /\ got_video' = got_video
            /\ ringh' = Raced(ringh)
    /\ cbh' = Disturbed(cbh)
    /\ UNCHANGED <<cfgVars, procVars, now, start, video_time, last_video, seeking,
                   seek_target, pts, cursor, vdec_q, adec_q, aframe, m_idx,
                   audio_buf, cbVars, hist>>

\* line 307: audio_buf_index = audio_buf_size = 0, the store to audio_buf_size
ResetSize ==
    /\ Alive /\ pc = "reset" /\ "size" \notin rdone
    /\ audio_buf_size' = 0
    /\ audio_buf_index' = audio_buf_index
    /\ ResetStep("size")

\* line 307: the store to audio_buf_index (the order in which the two stores
\* reach memory is not fixed for plain variables)
ResetIndex ==
    /\ Alive /\ pc = "reset" /\ "index" \notin rdone
    /\ audio_buf_index' = 0
    /\ audio_buf_size' = audio_buf_size
    /\ ResetStep("index")

\* line 313: av_read_frame fails at the end of the container: goto end
ReadEOF ==
    /\ Alive /\ pc = "read" /\ EndOfStream(cursor, packets)
    /\ pc' = "end"
    /\ hist' = [hist EXCEPT !.pulls = 1, !.eof = TRUE]
    /\ UNCHANGED <<cfgVars, procVars, now, start, video_time, last_video, seeking,
                   seek_target, got_video, pts, cursor, vdec_q, adec_q, aframe,
                   m_idx, rdone, ringVars, cbVars, cbh, ringh>>

\* lines 313-320, 336: a video packet is read, sent, and receive is called once
ReadVideo ==
    /\ Alive /\ pc = "read" /\ ~EndOfStream(cursor, packets)
    /\ cursor < Len(packets)
    /\ packets[cursor + 1].st = "v"
    /\ cursor' = cursor + 1
    /\ LET fr == packets[cursor + 1].frames
           ok == SendAccepted(vdec_q, vdelay)
           q  == AfterSend(vdec_q, vdelay, fr)
           e  == IF ok THEN hist.qe \o [k \in 1..Len(fr) |-> hist.repos]
                       ELSE hist.qe
           h  == [hist EXCEPT !.pulls = 1, !.lost = hist.lost \/ ~ok]
       IN IF ReceiveReady(q, vdelay)
          THEN /\ pts' = Head(q) /\ vdec_q' = Tail(q)
               /\ got_video' = 1 /\ pc' = "gate"
               /\ hist' = [h EXCEPT !.vdrained = FALSE, !.qe = Tail(e),
                                     !.f_epoch = Head(e)]
          ELSE /\ pts' = pts /\ vdec_q' = q
               /\ got_video' = got_video /\ pc' = "read"
               /\ hist' = [h EXCEPT !.vdrained = TRUE, !.qe = e]
    /\ UNCHANGED <<cfgVars, procVars, now, start, video_time, last_video, seeking,
                   seek_target, adec_q, aframe, m_idx, rdone, ringVars, cbVars,
                   cbh, ringh>>

\* lines 313, 321-322: an audio packet is read and sent to the audio decoder
ReadAudio ==
    /\ Alive /\ pc = "read" /\ ~EndOfStream(cursor, packets)
    /\ cursor < Len(packets)
    /\ packets[cursor + 1].st = "a"
    /\ cursor' = cursor + 1
    /\ IF adec
       THEN /\ adec_q' = AfterSend(adec_q, 0, packets[cursor + 1].frames)
            /\ pc' = "arecv"
       ELSE /\ adec_q' = adec_q
            /\ pc' = "read"
    /\ hist' = [hist EXCEPT !.pulls = 1, !.a_epoch = hist.repos,
                            !.lost = hist.lost
                                       \/ (adec /\ ~SendAccepted(adec_q, 0))]
    /\ UNCHANGED <<cfgVars, procVars, now, start, video_time, last_video, seeking,
                   seek_target, got_video, pts, vdec_q, aframe, m_idx, rdone,
                   ringVars, cbVars, cbh, ringh>>

\* lines 323-325: avcodec_receive_frame(adec) returns a frame
ReceiveAudio ==
    /\ Alive /\ pc = "arecv" /\ adec_q # <<>>
    /\ aframe' = Head(adec_q)
    /\ adec_q' = Tail(adec_q)
    /\ pc' = "ptest"
    /\ hist' = [hist EXCEPT !.adrained = FALSE]
    /\ UNCHANGED <<cfgVars, procVars, now, start, video_time, last_video, seeking,
                   seek_target, got_video, pts, cursor, vdec_q, m_idx, rdone,
                   ringVars, cbVars, cbh, ringh>>

\* lines 323, 336: avcodec_receive_frame(adec) has no frame; the packet is released
AudioDrained ==
    /\ Alive /\ pc = "arecv" /\ adec_q = <<>>
    /\ pc' = "read"
    /\ hist' = [hist EXCEPT !.adrained = TRUE]
    /\ UNCHANGED <<cfgVars, procVars, now, start, video_time, last_video, seeking,
                   seek_target, got_video, pts, cursor, vdec_q, adec_q, aframe,
                   m_idx, rdone, ringVars, cbVars, cbh, ringh>>

\* line 326: the capacity test (audio_buf_index is loaded)
PushTest ==
    /\ Alive /\ pc = "ptest"
    /\ m_idx' = audio_buf_index
    /\ pc' = IF NeedsGrow(audio_buf_size, audio_buf_index, Len(aframe))
             THEN "pgrow" ELSE "pcopy"
    /\ ringh' = Raced(ringh)
    /\ UNCHANGED <<cfgVars, procVars, now, start, video_time, last_video, seeking,
                   seek_target, got_video, pts, cursor, vdec_q, adec_q, aframe,
                   rdone, ringVars, cbVars, hist, cbh>>

\* lines 327-328: audio_buf_size = audio_buf_index + bytes; av_realloc
PushGrow ==
    /\ Alive /\ pc = "pgrow"
    /\ \E i \in {m_idx, audio_buf_index}, g \in Indeterminate :
          /\ audio_buf_size' = i + Len(aframe)
          /\ audio_buf' = Realloc(audio_buf, i + Len(aframe), g)
          /\ m_idx' = i
    /\ pc' = "pcopy"
    /\ cbh' = Disturbed(cbh)
    /\ ringh' = Raced(ringh)
    /\ UNCHANGED <<cfgVars, procVars, now, start, video_time, last_video, seeking,
                   seek_target, got_video, pts, cursor, vdec_q, adec_q, aframe,
                   rdone, audio_buf_index, cbVars, hist>>

\* lines 330-332: the samples are stored at audio_buf + audio_buf_index
PushCopy ==
    /\ Alive /\ pc = "pcopy"
    /\ \E i \in {m_idx, audio_buf_index} :
          /\ audio_buf' = StoreAt(audio_buf, i, aframe)
          /\ m_idx' = i
          /\ ringh' = [Raced(ringh) EXCEPT
                          !.pushed = ringh.pushed \o aframe,
                          !.overflow = ringh.overflow
                                         \/ i + Len(aframe) > Len(audio_buf)]
    /\ pc' = "padv"
    /\ cbh' = Disturbed(cbh)
    /\ UNCHANGED <<cfgVars, procVars, now, start, video_time, last_video, seeking,
                   seek_target, got_video, pts, cursor, vdec_q, adec_q, aframe,
                   rdone, audio_buf_size, audio_buf_index, cbVars, hist>>

\* line 333: audio_buf_index += bytes
PushAdvance ==
    /\ Alive /\ pc = "padv"
    /\ \E i \in {m_idx, audio_buf_index} :
          /\ audio_buf_index' = i + Len(aframe)
          /\ m_idx' = i
    /\ pc' = "arecv"
    /\ cbh' = Disturbed(cbh)
    /\ ringh' = Raced(ringh)
    /\ UNCHANGED <<cfgVars, procVars, now, start, video_time, last_video, seeking,
                   seek_target, got_video, pts, cursor, vdec_q, adec_q, aframe,
                   rdone, audio_buf, audio_buf_size, cbVars, hist>>

\* lines 339-344: the cadence gate lets the frame through; it is presented
GatePresent ==
    /\ Alive /\ pc = "gate"
    /\ got_video = 1 /\ CadenceElapsed(video_time, last_video)
    /\ last_video' = video_time
    /\ pc' = "ui"
    /\ hist' = [hist EXCEPT
                  !.shown = TRUE,
                  !.first = hist.awaiting,
                  !.gap = IF hist.pres_now = -1 THEN -1 ELSE now - hist.pres_now,
                  !.prev = IF hist.pres_pts = -1 THEN 0 ELSE hist.pres_pts,
                  !.elapsed = now - start,
                  !.pres_now = now,
                  !.pres_pts = pts,
                  !.awaiting = FALSE,
                  !.presented = IF hist.requests = 0
                                THEN Append(hist.presented, pts) ELSE <<>>]
    /\ UNCHANGED <<cfgVars, procVars, now, start, video_time, seeking, seek_target,
                   got_video, pts, cursor, vdec_q, adec_q, aframe, m_idx, rdone,
                   ringVars, cbVars, cbh, ringh>>

\* line 339 false: the decoded frame is not presented
GateSkip ==
    /\ Alive /\ pc = "gate"
    /\ ~(got_video = 1 /\ CadenceElapsed(video_time, last_video))
    /\ pc' = "ui"
    /\ UNCHANGED <<cfgVars, procVars, now, start, video_time, last_video, seeking,
                   seek_target, got_video, pts, cursor, vdec_q, adec_q, aframe,
                   m_idx, rdone, ringVars, cbVars, histVars>>

\* The observations of one presentation last until the iteration's UI pass.
Seen(h) == [h EXCEPT !.shown = FALSE, !.first = FALSE, !.gap = -1,
                     !.prev = 0, !.elapsed = 0,
                     !.repo_target = IF h.awaiting THEN h.repo_target ELSE -1,
                     !.seek_ts = IF h.awaiting THEN h.seek_ts ELSE -1]

\* lines 347-365 with the slider untouched
UiIdle ==
    /\ Alive /\ pc = "ui"
    /\ pc' = "loop"
    /\ hist' = Seen(hist)
    /\ UNCHANGED <<cfgVars, procVars, now, start, video_time, last_video, seeking,
                   seek_target, got_video, pts, cursor, vdec_q, adec_q, aframe,
                   m_idx, rdone, ringVars, cbVars, cbh, ringh>>

\* lines 353-356: the slider reports a new position
UiSeek ==
    /\ Alive /\ pc = "ui"
    /\ hist.requests < MaxSeeks
    /\ \E pos \in SliderPositions :
          /\ seek_target' = Overwrite(seek_target, SeekTarget(pos, duration))
          /\ hist' = [Seen(hist) EXCEPT !.requests = hist.requests + 1,
                                        !.age = 0, !.presented = <<>>,
                                        !.last_req = SeekTarget(pos, duration)]
    /\ seeking' = TRUE
    /\ pc' = "loop"
    /\ UNCHANGED <<cfgVars, procVars, now, start, video_time, last_video, got_video, pts,
                   cursor, vdec_q, adec_q, aframe, m_idx, rdone, ringVars,
                   cbVars, cbh, ringh>>

\* lines 368-378: cleanup; SDL_CloseAudioDevice waits for a running callback
Cleanup ==
    /\ Alive /\ pc = "end" /\ cpc = "idle"
    /\ pc' = "done"
    /\ hist' = [hist EXCEPT !.cleanups = hist.cleanups + 1]
    /\ UNCHANGED <<cfgVars, procVars, now, start, video_time, last_video, seeking,
                   seek_target, got_video, pts, cursor, vdec_q, adec_q, aframe,
                   m_idx, rdone, ringVars, cbVars, cbh, ringh>>

(***************************************************************************)
(* The audio thread: audio_callback(), lines 208-220.                       *)
(***************************************************************************)
\* What a step of the callback taken while the main thread is inside a push
\* or the reset does to the observations.
Overlap(r) == IF pc \in RingPcs THEN [r EXCEPT !.racy = TRUE] ELSE r

\* line 210: the callback is entered and tests for underrun
CbStart ==
    /\ audio_dev /\ cpc = "idle" /\ pc # "done"
    /\ ringh.calls < MaxCalls
    /\ \E n \in Lens : len' = n
    /\ c_idx' = audio_buf_index
    /\ c_size' = audio_buf_size
    /\ copy' = 0
    /\ stream' = <<>>
    /\ cpc' = IF Underrun(audio_buf_index, audio_buf_size) THEN "silence" ELSE "calc"
    /\ cbh' = [e_idx |-> audio_buf_index, e_size |-> audio_buf_size,
               e_buf |-> audio_buf, e_quiet |-> pc \notin RingPcs,
               e_pushed |-> ringh.pushed, e_pulled |-> ringh.pulled,
               e_racy |-> ringh.racy,
               clean |-> TRUE, ret |-> FALSE, r_idx |-> 0, r_size |-> 0]
    /\ ringh' = [Overlap(ringh) EXCEPT !.calls = ringh.calls + 1]
    /\ UNCHANGED <<cfgVars, procVars, mainVars, ringVars, hist>>

\* lines 211-212: underrun, the whole output is silence
CbSilence ==
    /\ cpc = "silence"
    /\ stream' = Zeros(len)
    /\ cpc' = "ret"
    /\ cbh' = IF cbh.clean
              THEN [cbh EXCEPT !.ret = TRUE, !.r_idx = audio_buf_index,
                               !.r_size = audio_buf_size]
              ELSE [cbh EXCEPT !.ret = TRUE]
    /\ ringh' = Overlap(ringh)
    /\ UNCHANGED <<cfgVars, procVars, mainVars, ringVars, len, c_idx, c_size, copy, hist>>

\* lines 214-215: copy is computed and clamped to len
CbCalc ==
    /\ cpc = "calc"
    /\ \E i \in {c_idx, audio_buf_index}, s \in {c_size, audio_buf_size} :
          /\ copy' = CopyCount(s, i, len)
          /\ c_idx' = i
          /\ c_size' = s
    /\ cpc' = "memcpy"
    /\ ringh' = Overlap(ringh)
    /\ UNCHANGED <<cfgVars, procVars, mainVars, ringVars, len, stream, hist, cbh>>

\* line 216: SDL_memcpy(stream, audio_buf + audio_buf_index, copy)
CbMemcpy ==
    /\ cpc = "memcpy" /\ copy >= 0
    /\ \E i \in {c_idx, audio_buf_index}, g \in Indeterminate :
          /\ stream' = LoadAt(audio_buf, i, copy, g)
          /\ c_idx' = i
    /\ cpc' = "adv"
    /\ ringh' = [Overlap(ringh) EXCEPT !.pulled = ringh.pulled + copy]
    /\ UNCHANGED <<cfgVars, procVars, mainVars, ringVars, len, c_size, copy, hist, cbh>>

\* line 216 with a negative copy: the length converts to a huge size_t and
\* the copy runs off the mapped memory; the process dies
CbCrash ==
    /\ cpc = "memcpy" /\ copy < 0
    /\ cpc' = "crashed"
    /\ UNCHANGED <<cfgVars, procVars, mainVars, ringVars, len, c_idx, c_size, copy,
                   stream, histVars>>

\* lines 217-219: audio_buf_index += copy; the rest of the output is zeroed
CbAdvance ==
    /\ cpc = "adv"
    /\ \E i \in {c_idx, audio_buf_index} :
          /\ audio_buf_index' = i + copy
          /\ c_idx' = i
          /\ cbh' = IF cbh.clean
                    THEN [cbh EXCEPT !.ret = TRUE, !.r_idx = i + copy,
                                     !.r_size = audio_buf_size]
                    ELSE [cbh EXCEPT !.ret = TRUE]
    /\ stream' = stream \o Zeros(len - copy)
    /\ cpc' = "ret"
    /\ ringh' = Overlap(ringh)
    /\ UNCHANGED <<cfgVars, procVars, mainVars, audio_buf, audio_buf_size, len, c_size,
                   copy, hist>>

\* line 220 / 212: the callback returns; its locals and output are gone
CbReturn ==
    /\ cpc = "ret"
    /\ cpc' = "idle"
    /\ len' = 0 /\ c_idx' = 0 /\ c_size' = 0 /\ copy' = 0 /\ stream' = <<>>
    /\ cbh' = CbH0
    /\ UNCHANGED <<cfgVars, procVars, mainVars, ringVars, hist, ringh>>

(***************************************************************************)
(* The specifications.                                                     *)
(***************************************************************************)
Next ==
    \/ WindowClose \/ LoopTop \/ SeekSkip \/ Reposition
    \/ ResetSize \/ ResetIndex
    \/ ReadEOF \/ ReadVideo \/ ReadAudio \/ ReceiveAudio \/ AudioDrained
    \/ PushTest \/ PushGrow \/ PushCopy \/ PushAdvance
    \/ GatePresent \/ GateSkip \/ UiIdle \/ UiSeek \/ Cleanup
    \/ CbStart \/ CbSilence \/ CbCalc \/ CbMemcpy \/ CbCrash \/ CbAdvance \/ CbReturn

Spec == Init /\ [][Next]_vars

\* The main loop alone, on a file without audio.
NextClock ==
    \/ WindowClose \/ LoopTop \/ SeekSkip \/ Reposition
    \/ ResetSize \/ ResetIndex
    \/ ReadEOF \/ ReadVideo
    \/ GatePresent \/ GateSkip \/ UiIdle \/ UiSeek \/ Cleanup

SpecClock == InitClock /\ [][NextClock]_vars

\* The same loop on the file whose first packet unlocks two frames.
SpecBurst == InitBurst /\ [][NextClock]_vars

\* The whole process, from the entry of main() to its return.
NextMain ==
    \/ MainFail \/ MainBoot \/ OpenFail \/ OpenOk \/ MainExit
    \/ WindowClose \/ LoopTop \/ SeekSkip \/ Reposition
    \/ ResetSize \/ ResetIndex
    \/ ReadEOF \/ ReadVideo
    \/ GatePresent \/ GateSkip \/ UiIdle \/ UiSeek \/ Cleanup

SpecMain == InitMain /\ [][NextMain]_vars

\* The process with the window left open and the slider untouched.  The main
\* thread is one sequential program that runs whenever it can: weak fairness.
NextLive ==
    \/ MainBoot \/ OpenOk \/ MainExit
    \/ LoopTop \/ SeekSkip
    \/ ReadEOF \/ ReadVideo
    \/ GatePresent \/ GateSkip \/ UiIdle \/ Cleanup

SpecLive == InitLive /\ [][NextLive]_vars /\ WF_vars(NextLive)

(***************************************************************************)
(* Claims.                                                                 *)
(***************************************************************************)

\* C1: in every reachable state, under every interleaving of the push, the
\* audio callback and the seek reset, the read cursor never exceeds the
\* write cursor: audio_buf_index <= audio_buf_size.
C1_IndexAtMostSize == audio_buf_index <= audio_buf_size

PushPcs == {"ptest", "pgrow", "pcopy", "padv"}
CbStep  == cpc' # cpc /\ cpc # "idle"
Max(a, b) == IF a > b THEN a ELSE b

\* C2: each cursor has a single owner: a step of the push leaves
\* audio_buf_index unchanged and never moves audio_buf_size back, and the
\* pushed bytes end at the write cursor; a step of the callback leaves
\* audio_buf_size unchanged and never moves audio_buf_index back.
C2_SingleOwner ==
    [][ /\ (pc \in PushPcs /\ pc' # pc) =>
              /\ audio_buf_index' = audio_buf_index
              /\ audio_buf_size' >= audio_buf_size
        /\ (pc = "pcopy" /\ pc' = "padv") =>
              /\ audio_buf_size' <= Len(audio_buf')
              /\ audio_buf_size' >= Len(aframe)
              /\ SubSeq(audio_buf', audio_buf_size' - Len(aframe) + 1,
                        audio_buf_size') = aframe
        /\ CbStep =>
              /\ audio_buf_size' = audio_buf_size
              /\ audio_buf_index' >= audio_buf_index ]_vars

\* C3: a callback invocation that no store of the main thread disturbs
\* fills exactly len output bytes and never waits: the first
\* min(len, size - index) bytes are the buffer bytes from index on, the rest
\* are zero, index advances by exactly that many and size is unchanged; on
\* underrun the whole output is zero and neither cursor moves.
C3_PullContract ==
    /\ (cbh.clean /\ cpc \in {"silence", "calc", "memcpy", "adv", "ret"}) =>
          ENABLED (CbSilence \/ CbCalc \/ CbMemcpy \/ CbAdvance \/ CbReturn)
    /\ (cpc = "ret" /\ cbh.clean) =>
          LET a == Min(len, Max(cbh.e_size - cbh.e_idx, 0))
          IN /\ Len(stream) = len
             /\ a > 0 => cbh.e_idx + a <= Len(cbh.e_buf)
             /\ \A k \in 1..len :
                   stream[k] = IF k <= a THEN cbh.e_buf[cbh.e_idx + k] ELSE 0
             /\ cbh.r_idx = cbh.e_idx + a
             /\ cbh.r_size = cbh.e_size
             /\ (cbh.e_idx >= cbh.e_size =>
                    /\ stream = Zeros(len)
                    /\ cbh.r_idx = cbh.e_idx)

\* an undisturbed invocation that asked for 3 bytes with 2 available
C3_Witness ==
    /\ cpc = "ret" /\ cbh.clean
    /\ cbh.e_size - cbh.e_idx = 2 /\ len = 3
    /\ stream = <<1, 2, 0>>

\* C4: from an empty buffer, after pushes totalling n bytes with nothing
\* running concurrently, a pull of m >= n bytes returns the n pushed bytes
\* in push order followed by m - n zero bytes.
C4_PushedBytesDelivered ==
    (/\ cpc = "ret" /\ cbh.clean /\ cbh.e_quiet /\ ~cbh.e_racy
     /\ cbh.e_pulled = 0 /\ cbh.e_pushed # <<>>
     /\ len >= Len(cbh.e_pushed))
    => stream = cbh.e_pushed \o Zeros(len - Len(cbh.e_pushed))

\* C5: at the step that completes the reset of line 307 both cursors are
\* zero, whatever the callback does meanwhile; and no operation of the main
\* loop but that reset brings a cursor back to zero.
C5_ResetZeroesCursors ==
    [][ /\ (pc = "reset" /\ pc' = "read") =>
              (audio_buf_index' = 0 /\ audio_buf_size' = 0)
        /\ (pc' # pc /\ audio_buf_index # 0 /\ audio_buf_index' = 0) =>
              pc = "reset"
        /\ (pc' # pc /\ audio_buf_size # 0 /\ audio_buf_size' = 0) =>
              pc = "reset" ]_vars

\* The seek controller's state.
Phase == IF pc = "reset" THEN "Repositioning"
         ELSE IF seeking THEN "Armed" ELSE "Idle"

\* C6: the armed flag is tested exactly once in an iteration, before the
\* iteration's first packet pull; when it was set, by that first pull the
\* source has been repositioned, both decoders flushed, the anchor rebased,
\* the buffer reset stored and the flag cleared; and the seek controller
\* only moves Idle -> Armed -> Repositioning -> Idle.
C6_SeekProtocol ==
    /\ [](/\ (pc = "seek") => (hist.tests = 0 /\ hist.pulls = 0)
          /\ (pc \in {"read", "arecv", "gate", "ui"} \cup PushPcs) =>
                hist.tests = 1
          /\ (hist.pulls = 1) => hist.tests = 1
          /\ (pc = "read" /\ hist.pulls = 0 /\ hist.armed) =>
                /\ ~seeking
                /\ seekable =>
                      cursor = SeekCursor(packets, SeekTimestamp(seek_target))
                /\ vdec_q = <<>>
                /\ adec => adec_q = <<>>
                /\ start = now - seek_target
                /\ rdone = {"size", "index"}
                /\ audio_buf_size = 0)
    /\ [][Phase' # Phase =>
             <<Phase, Phase'>> \in {<<"Idle", "Armed">>,
                                    <<"Armed", "Repositioning">>,
                                    <<"Repositioning", "Idle">>}]_vars

\* a Repositioning to a target other than zero is over, no packet pulled yet
C6_Witness ==
    /\ pc = "read" /\ hist.pulls = 0 /\ hist.armed
    /\ seek_target > 0 /\ hist.repos = 2 /\ vdelay = 1 /\ seekable

\* C7: every seek request is consumed exactly once: Repositionings never
\* outnumber requests, the flag is set exactly while one request is still
\* unconsumed, and a request armed in one iteration is at the flag test of
\* the next one after a single turn of the loop.
C7_ConsumedOnce ==
    /\ hist.repos <= hist.requests
    /\ hist.requests <= hist.repos + 1
    /\ seeking <=> (hist.requests = hist.repos + 1)
    /\ seeking => (hist.age <= 1 /\ (hist.age = 1 => pc = "seek"))
    /\ (pc = "reset") => (hist.age = 0 /\ hist.repos = hist.requests)

\* two requests, each consumed by its own Repositioning
C7_Witness ==
    /\ hist.requests = 2 /\ hist.repos = 2 /\ ~seeking /\ pc = "read"

\* C8: on a container that supports seeking, for a target t below the
\* duration the source is asked to reposition to t, and the first frame
\* presented after the Repositioning has a timestamp <= t and >= the sync
\* point at or before t.
SyncBefore(pk, t) == pk[SeekCursor(pk, t) + 1].pts
C8_SeekLandsAtTarget ==
    (/\ hist.shown /\ hist.first /\ seekable
     /\ hist.repo_target < duration)
    => /\ hist.seek_ts = hist.repo_target
       /\ pts <= hist.repo_target
       /\ pts >= SyncBefore(packets, hist.repo_target)

\* C9: two consecutive presented frames are at least 1/30 s of wall clock
\* apart, seeks or no seeks.
C9_CadenceCap ==
    (hist.shown /\ hist.gap # -1) => 30 * hist.gap >= AV_TIME_BASE

\* C10: a frame is presented only once now - anchor >= framePts -
\* lastPresentedPts, so never ahead of the elapsed wall-clock time.
C10_PacedByTimestamp ==
    hist.shown => hist.elapsed >= hist.pres_pts - hist.prev

\* The video frames the container holds, in stream order.
RECURSIVE FramesOf(_)
FramesOf(pk) ==
    IF pk = <<>> THEN <<>>
    ELSE (IF Head(pk).st = "v" THEN Head(pk).frames ELSE <<>>)
         \o FramesOf(Tail(pk))

\* C11: when the file has been played to its end with no seek request, the
\* frames presented are exactly the video frames of the stream, each once,
\* in order of timestamp: the gate discarded none and the decoder kept none.
C11_EveryFramePresented ==
    (hist.eof /\ hist.requests = 0) => hist.presented = FramesOf(packets)

\* C12: a packet is sent to a decode stage only when every receive that
\* followed the stage's previous send has been made, the last of them
\* answering that the stage needs more packets, so the stage holds no frame
\* that could still be retrieved.
C12_DrainBeforeSend ==
    [][ /\ (pc = "read" /\ cursor' = cursor + 1
                        /\ packets[cursor + 1].st = "v") =>
              (hist.vdrained /\ ~ReceiveReady(vdec_q, vdelay))
        /\ (pc = "read" /\ cursor' = cursor + 1 /\ adec
                        /\ packets[cursor + 1].st = "a") =>
              (hist.adrained /\ ~ReceiveReady(adec_q, 0)) ]_vars

\* C13: no packet is released after a decode stage refused it: a packet
\* whose send was rejected is never given up for the next one.
C13_NoPacketDropped == ~hist.lost

\* C14: when the media cannot be opened the process ends with exit code 1
\* without having entered the loop, and exit code 0 comes only from a session
\* that opened the media and then ended normally, at end of stream or with
\* the window closed.
C14_OpenFailureExits1 ==
    /\ (pc = "exited" /\ boot = "ok" /\ open_res # "ok") =>
          (exit_code = 1 /\ ~hist.entered)
    /\ (exit_code = 0) =>
          (boot = "ok" /\ open_res = "ok" /\ hist.entered
           /\ hist.cleanups = 1)

C16_FailedSeekIsNoOp ==
    [][(pc = "seek" /\ seeking /\ ~seekable /\ pc' # pc) =>
          /\ ~seeking'
          /\ cursor' = cursor
          /\ now' - start' = now - start ]_vars

\* The bytes a callback has copied out are a slice of what completed pushes
\* wrote since the last reset.
IsSliceOf(s, w) ==
    \E i \in 0..(Len(w) - Len(s)) : SubSeq(w, i + 1, i + Len(s)) = s

\* C17: the data bytes pulled since the last reset never outnumber the bytes
\* pushed since that reset, and the data bytes a pull copies out are bytes a
\* push has written, never a region that was sized but not yet written.
C17_PulledWerePushed ==
    /\ ringh.pulled <= Len(ringh.pushed)
    /\ (cpc = "adv" /\ copy > 0) => IsSliceOf(stream, ringh.pushed)

\* C18: there is one target and at most one request pending; a new request
\* replaces the stored target, and a Repositioning works with the target
\* written last: the source is asked for it and the anchor is rebased by it.
C18_LastWriteWins ==
    /\ [](/\ hist.requests - hist.repos \in {0, 1}
          /\ seeking => seek_target = hist.last_req
          /\ (pc = "ui") => ~seeking)
    /\ [][(pc = "seek" /\ pc' = "reset") =>
             /\ start' = now - hist.last_req
             /\ seekable =>
                   cursor' = SeekCursor(packets, SeekTimestamp(hist.last_req))
             /\ hist'.used = hist.last_req ]_vars

\* a second request wrote another target than the first one, and the second
\* Repositioning has used it
C18_Witness ==
    /\ pc = "reset" /\ hist.repos = 2
    /\ hist.used = 6 /\ hist.used_before = 0 /\ hist.last_req = 6

\* C19: within one Repositioning the timestamp handed to the source seek,
\* read in the container time base, and the offset of the clock rebase are
\* the same position, the one the slider asked for.
C19_SeekAndRebaseAgree ==
    (pc = "reset") =>
        /\ now - start = hist.last_req
        /\ hist.seek_ts = now - start

\* C20: after a Repositioning nothing that predates it comes out: a video
\* frame that is presented, a frame a decoder holds, and an audio frame being
\* pushed all stem from packets pulled after the last source seek.
C20_NoStaleFrame ==
    /\ hist.shown => hist.f_epoch = hist.repos
    /\ Len(hist.qe) = Len(vdec_q)
    /\ \A i \in 1..Len(hist.qe) : hist.qe[i] = hist.repos
    /\ (pc \in PushPcs \/ adec_q # <<>>) => hist.a_epoch = hist.repos

\* the first frame presented after a Repositioning that found a frame inside
\* the video decoder and flushed it
C20_Witness ==
    /\ hist.shown /\ hist.first /\ hist.repos >= 1 /\ hist.discarded > 0
    /\ hist.f_epoch = hist.repos

\* C21: the allocation behind the audio buffer never gets shorter: after the
\* reallocation of a push, the first push after a seek reset included, it is
\* at least as long as before.
C21_AllocationNeverShrinks ==
    [][(pc = "pgrow" /\ pc' = "pcopy") =>
          Len(audio_buf') >= Len(audio_buf)]_vars

\* C22: every store of a push lies inside the allocation (index + bytes is at
\* most the allocated length when the samples are copied), under every
\* interleaving with the callback and the seek reset, and the unsigned
\* difference size - index of the capacity test never wraps.
C22_WritesInsideAllocation ==
    /\ ~ringh.overflow
    /\ pc = "ptest" => audio_buf_size >= audio_buf_index

\* C23: a seek neither stalls nor jumps presentation: after a Repositioning,
\* forward or backward, the first video frame decoded at least 1/30 s of wall
\* time after the seek (and after the last presentation) is presented, so the
\* gate is never shut for longer than the cap because of the seek.
C23_SeekDoesNotStall ==
    [][(/\ pc = "gate" /\ pc' = "ui"
        /\ got_video = 1 /\ hist.awaiting
        /\ CadenceElapsed(now, hist.repo_now)
        /\ (hist.pres_now = -1 \/ CadenceElapsed(now, hist.pres_now)))
       => hist'.shown]_vars

====
